---- MODULE Spec2Model ----
(***************************************************************************)
(* A model of twpca/model.py: the TWPCA estimator.                         *)
(*                                                                         *)
(* Spec      the life cycle of one TWPCA instance: fit (with its schedule  *)
(*           of train phases), train, predict, transform and params, with  *)
(*           arrays reduced to their shapes and the optimizer reduced to   *)
(*           the count of the steps it has applied.                        *)
(* SpecData  the part of fit that reads the entries of the data: the mask, *)
(*           the NaN-zeroed copy, the last index of every trial and the    *)
(*           reconstruction cost, on small tensors with missing entries.   *)
(***************************************************************************)
EXTENDS Integers, Sequences, FiniteSets, TLC

VARIABLES
    n_components,       \* self.n_components
    shared_length,      \* self.shared_length: None or Some(length)
    fit_trial_factors,  \* self.fit_trial_factors
    sess,               \* self._sess: None or a session
    nsess,              \* how many sessions tf.Session() has created
    X_shape,            \* shape of self.X, None before the first fit
    warp_dims,          \* <<n_trials, n_timesteps, shared_length>> of self._inv_warp
    wtf_shape,          \* shape of self._warped_time_factors
    pred_shape,         \* shape of self.X_pred
    graph_gen,          \* which build of variables, optimizer and train_op is current
    opt_steps,          \* minimizer steps applied to the current variables
    obj_history,        \* self.obj_history
    fit_called,         \* fit has been called on this instance
    ncalls,             \* calls made on this instance
    last,               \* the last call: its arguments and its outcome
    np_X,               \* fit's input tensor (SpecData)
    X0,                 \* self.X: the input with NaN replaced
    np_mask,            \* the finiteness mask
    num_datapoints,     \* self._num_datapoints
    last_idx,           \* self.last_idx
    X_pred,             \* the value of self.X_pred the cost is evaluated at
    recon_cost,         \* the value of self.recon_cost
    dpc                 \* the position of fit in SpecData

lifevars == <<n_components, shared_length, fit_trial_factors, sess, nsess, X_shape,
              warp_dims, wtf_shape, pred_shape, graph_gen, opt_steps, obj_history,
              fit_called, ncalls, last>>
datavars == <<np_X, X0, np_mask, num_datapoints, last_idx, X_pred, recon_cost, dpc>>
vars == <<lifevars, datavars>>

----------------------------------------------------------------------------
(* Bounds *)

MaxCalls == 2       \* calls made on one instance after its construction

\* Python's None, and a value that is not None
None == <<>>
Some(x) == <<x>>

\* shapes of the 3D arrays passed to fit, and of the arrays passed to predict
\* and transform (a 2D array among them)
FitShapes == {<<2, 2, 1>>, <<1, 3, 2>>}
NewShapes == FitShapes \cup {<<2, 2, 3>>, <<2, 2>>}
ComponentCounts == {2}
GivenLengths == {None, Some(4)}
\* iteration counts of one phase, and the lengths of the niter and lr
\* sequences passed to fit
IterCounts == {0, 1, 2}
PhaseCounts == {0, 1, 2}
\* learning rates: train takes any of them, fit takes one as a scalar or
\* a prefix of the decaying ladder as a sequence
LearningRates == {1, 2}
LrLadder == <<2, 1>>

\* a scalar argument (its value held in v[1]) and a sequence argument
\* (np.iterable tells them apart)
Scalar(v) == [kind |-> "scalar", v |-> <<v>>]
Iter(s) == [kind |-> "seq", v |-> s]
SeqsOver(S) == UNION {[1..k -> S] : k \in PhaseCounts}
NiterArgs == {Scalar(n) : n \in IterCounts} \cup {Iter(s) : s \in SeqsOver(IterCounts \ {0})}
LrArgs == {Scalar(1)} \cup {Iter(SubSeq(LrLadder, 1, k)) : k \in PhaseCounts}
SessArgs == {None, <<"caller">>}

----------------------------------------------------------------------------
(* TWPCA.__init__ *)

NoCall == [op |-> "init", outcome |-> "ok", X |-> None, niter |-> Scalar(0),
           lr |-> Scalar(0), sess_arg |-> None, ret |-> None]

InitLife ==
    /\ n_components \in ComponentCounts
    /\ shared_length \in GivenLengths
    /\ fit_trial_factors \in BOOLEAN
    /\ sess = None
    /\ nsess = 0
    /\ X_shape = None
    /\ warp_dims = None
    /\ wtf_shape = None
    /\ pred_shape = None
    /\ graph_gen = 0
    /\ opt_steps = 0
    /\ obj_history = <<>>
    /\ fit_called = FALSE
    /\ ncalls = 0
    /\ last = NoCall

----------------------------------------------------------------------------
(* TWPCA.train *)

\* RunIter with a fault: both fetched values are kept, not only the objective
RunIterKeepsBoth(st, lr) ==
    [hist |-> st.hist \o <<[gen |-> st.gen, step |-> st.steps, lr |-> lr],
                           [gen |-> st.gen, step |-> st.steps, lr |-> lr]>>,
     gen |-> st.gen,
     steps |-> st.steps + 1]

\* one sess.run([objective, train_op]): the objective of the current
\* variables is fetched and the minimizer applies one step to them
RunIter(st, lr) ==
    [hist |-> Append(st.hist, [gen |-> st.gen, step |-> st.steps, lr |-> lr]),
     gen |-> st.gen,
     steps |-> st.steps + 1]

\* TrainStart with a fault: the variables are initialized again
TrainStartReinit(st) == [st EXCEPT !.steps = 0]

\* TrainStart with a fault: the history is assigned, not extended
TrainStartOverwrite(st) == [st EXCEPT !.hist = <<>>]

\* ops = [self.objective, self._train_op]: a train call runs the ops fit
\* built, on the variables and the history as they are
TrainStart(st) == st

\* the list comprehension over iterator(niter)
RECURSIVE TrainIters(_, _, _)
TrainIters(st, niter, lr) ==
    IF niter <= 0 THEN st ELSE TrainIters(RunIter(st, lr), niter - 1, lr)

\* the body of train
TrainCall(st, niter, lr) == TrainIters(TrainStart(st), niter, lr)

\* for train_args in zip(niter, lr): self.train(*train_args)
RECURSIVE RunPhases(_, _, _)
RunPhases(st, niters, lrs) ==
    IF niters = <<>> \/ lrs = <<>> THEN st
    ELSE RunPhases(TrainCall(st, Head(niters), Head(lrs)), Tail(niters), Tail(lrs))

Train(niter, lr) ==
    /\ ncalls < MaxCalls
    /\ ncalls' = ncalls + 1
    /\ IF sess = None
       THEN \* self.objective does not exist yet
            /\ last' = [NoCall EXCEPT !.op = "train", !.outcome = "AttributeError",
                                      !.niter = Scalar(niter), !.lr = Scalar(lr)]
            /\ UNCHANGED <<obj_history, opt_steps>>
       ELSE LET st == TrainCall([hist |-> obj_history, gen |-> graph_gen,
                                 steps |-> opt_steps], niter, lr)
            IN /\ obj_history' = st.hist
               /\ opt_steps' = st.steps
               /\ last' = [NoCall EXCEPT !.op = "train", !.niter = Scalar(niter),
                                         !.lr = Scalar(lr)]
    /\ UNCHANGED <<n_components, shared_length, fit_trial_factors, sess, nsess, X_shape,
                   warp_dims, wtf_shape, pred_shape, graph_gen, fit_called>>
    /\ UNCHANGED datavars

----------------------------------------------------------------------------
(* TWPCA.fit *)

\* Schedule with a fault: the lengths are not compared, and zip stops at the
\* shorter sequence
ScheduleNoCheck(niter, lr) == [ok |-> TRUE, niters |-> niter.v, lrs |-> lr.v]

\* the check of niter and lr at the head of fit: the phases, or the error
Schedule(niter, lr) ==
    IF niter.kind = "scalar" /\ lr.kind = "scalar"
    THEN [ok |-> TRUE, niters |-> niter.v, lrs |-> lr.v]
    ELSE IF niter.kind = "seq" /\ lr.kind = "seq"
    THEN IF Len(niter.v) # Len(lr.v)
         THEN [ok |-> FALSE, niters |-> <<>>, lrs |-> <<>>]
         ELSE [ok |-> TRUE, niters |-> niter.v, lrs |-> lr.v]
    ELSE [ok |-> FALSE, niters |-> <<>>, lrs |-> <<>>]

\* FitSharedLength with a fault: every fit takes the length of its input
FitSharedLengthAlways(X) == Some(X[2])

\* if self.shared_length is None: self.shared_length = X.shape[1]
FitSharedLength(X) ==
    IF shared_length = None THEN Some(X[2]) ELSE shared_length

\* if sess is None: sess = tf.Session()
FitSession(sess_arg) ==
    IF sess_arg = None THEN <<"created", nsess + 1>> ELSE sess_arg

Fit(X, niter, lr, sess_arg, lowrank_ok) ==
    LET sched == Schedule(niter, lr)
        call == [NoCall EXCEPT !.op = "fit", !.X = X, !.niter = niter, !.lr = lr,
                               !.sess_arg = sess_arg]
        st == RunPhases([hist |-> <<>>, gen |-> graph_gen + 1, steps |-> 0],
                        sched.niters, sched.lrs)
    IN
    /\ ncalls < MaxCalls
    /\ ncalls' = ncalls + 1
    /\ fit_called' = TRUE
    /\ shared_length' = FitSharedLength(X)
    /\ UNCHANGED <<n_components, fit_trial_factors>>
    /\ UNCHANGED datavars
    /\ IF ~sched.ok
       THEN /\ last' = [call EXCEPT !.outcome = "ConfigurationError"]
            /\ UNCHANGED <<sess, nsess, X_shape, warp_dims, wtf_shape, pred_shape,
                           graph_gen, opt_steps, obj_history>>
       ELSE /\ X_shape' = X
            /\ warp_dims' = <<X[1], X[2], shared_length'[1]>>
            /\ IF ~lowrank_ok
               THEN /\ last' = [call EXCEPT !.outcome = "InsufficientDataError"]
                    /\ UNCHANGED <<sess, nsess, wtf_shape, pred_shape, graph_gen,
                                   opt_steps, obj_history>>
               ELSE /\ wtf_shape' = <<X[1], X[2], n_components>>
                    /\ pred_shape' = X
                    /\ graph_gen' = graph_gen + 1
                    /\ sess' = FitSession(sess_arg)
                    /\ nsess' = IF sess_arg = None THEN nsess + 1 ELSE nsess
                    /\ obj_history' = st.hist
                    /\ opt_steps' = st.steps
                    /\ last' = call

----------------------------------------------------------------------------
(* TWPCA.predict *)

Prod(shape) ==
    IF Len(shape) = 3 THEN shape[1] * shape[2] * shape[3]
    ELSE IF Len(shape) = 2 THEN shape[1] * shape[2] ELSE 0

\* predict past its first check, for an array X (None when no array is
\* passed): the outcome and the shape of the array it returns
PredictFitted(X) ==
    IF X = None THEN [outcome |-> "ok", ret |-> pred_shape]
    ELSE IF Len(X) # 3
    THEN \* n_trials, n_timepoints, n_neurons = X.shape
         [outcome |-> "UnpackError", ret |-> None]
    ELSE IF fit_trial_factors
    THEN \* self.self._params['trial']: TWPCA has no attribute self
         [outcome |-> "AttributeError", ret |-> None]
    ELSE IF wtf_shape[1] # X[1] THEN [outcome |-> "ShapeMismatchError", ret |-> None]
    ELSE IF wtf_shape[2] # X[2] THEN [outcome |-> "ShapeMismatchError", ret |-> None]
    ELSE LET time_factors == <<wtf_shape[1] * wtf_shape[2], n_components>>
             X_unf == <<X[1] * X[2], X[3]>>
             neuron_factors == <<time_factors[2], X_unf[2]>>
             \* np.dot(neuron_factors.T, time_factors.T).T
             flat == <<time_factors[1], neuron_factors[2]>>
         IN IF Prod(flat) = Prod(X)
            THEN [outcome |-> "ok", ret |-> X]
            ELSE [outcome |-> "ReshapeError", ret |-> None]

\* PredictResult with a fault: without the check, the session that is None is used
PredictUnguarded(X) ==
    IF sess = None THEN [outcome |-> "AttributeError", ret |-> None]
    ELSE PredictFitted(X)

\* if self._sess is None: raise ValueError('No model has been fit ...')
PredictResult(X) ==
    IF sess = None THEN [outcome |-> "UnfittedModelError", ret |-> None]
    ELSE PredictFitted(X)

Predict(X) ==
    LET r == PredictResult(X) IN
    /\ ncalls < MaxCalls
    /\ ncalls' = ncalls + 1
    /\ last' = [NoCall EXCEPT !.op = "predict", !.X = X, !.outcome = r.outcome,
                              !.ret = r.ret]
    /\ UNCHANGED <<n_components, shared_length, fit_trial_factors, sess, nsess, X_shape,
                   warp_dims, wtf_shape, pred_shape, graph_gen, opt_steps, obj_history,
                   fit_called>>
    /\ UNCHANGED datavars

----------------------------------------------------------------------------
(* TWPCA.transform and TWPCA.params *)

\* warp.warp(X_tf, self._inv_warp) run in the session
Transform(X) ==
    LET X_tf == IF X = None THEN X_shape ELSE X
        r == IF sess = None \/ X_tf = None
             THEN [outcome |-> "AttributeError", ret |-> None]
             ELSE [outcome |-> "ok", ret |-> <<X_tf[1], warp_dims[3], X_tf[3]>>]
    IN
    /\ ncalls < MaxCalls
    /\ ncalls' = ncalls + 1
    /\ last' = [NoCall EXCEPT !.op = "transform", !.X = X, !.outcome = r.outcome,
                              !.ret = r.ret]
    /\ UNCHANGED <<n_components, shared_length, fit_trial_factors, sess, nsess, X_shape,
                   warp_dims, wtf_shape, pred_shape, graph_gen, opt_steps, obj_history,
                   fit_called>>
    /\ UNCHANGED datavars

Params ==
    /\ ncalls < MaxCalls
    /\ ncalls' = ncalls + 1
    /\ last' = [NoCall EXCEPT !.op = "params",
                              !.outcome = IF sess = None THEN "AttributeError" ELSE "ok"]
    /\ UNCHANGED <<n_components, shared_length, fit_trial_factors, sess, nsess, X_shape,
                   warp_dims, wtf_shape, pred_shape, graph_gen, opt_steps, obj_history,
                   fit_called>>
    /\ UNCHANGED datavars

----------------------------------------------------------------------------
(* The entries of the data: the part of TWPCA.fit that builds the mask, the  *)
(* last index of every trial and the reconstruction cost.                    *)

MaxVal == 1         \* finite entries of the data are 0..MaxVal

\* a float32: NaN, or a finite value
NaN == [nan |-> TRUE, v |-> 0]
F(v) == [nan |-> FALSE, v |-> v]
DataVals == {NaN} \cup {F(v) : v \in 0..MaxVal}
DataShapes == {<<1, 2, 2>>, <<2, 3, 1>>, <<2, 2, 2>>}
PredChoices == {0, 1, 2}

\* Python's indices of an array of a shape
Idx(shape) == (0..(shape[1] - 1)) \X (0..(shape[2] - 1)) \X (0..(shape[3] - 1))

\* float arithmetic: NaN in, NaN out
FSub(a, b) == IF a.nan \/ b.nan THEN NaN ELSE F(a.v - b.v)
FMul(a, b) == IF a.nan \/ b.nan THEN NaN ELSE F(a.v * b.v)
FAdd(a, b) == IF a.nan \/ b.nan THEN NaN ELSE F(a.v + b.v)

\* a quotient, kept as numerator and denominator; 0 / 0 is NaN
Quot(n, d) == [nan |-> FALSE, num |-> n, den |-> d]
NaNQuot == [nan |-> TRUE, num |-> 0, den |-> 0]
FDiv(a, n) == IF a.nan \/ (a.v = 0 /\ n = 0) THEN NaNQuot ELSE Quot(a.v, n)

\* NanToNum with a fault: the missing entries stay NaN
NanToNumKeep(x) == x

\* np.isfinite and np.nan_to_num, entry by entry
IsFinite(x) == ~x.nan
NanToNum(x) == IF x.nan THEN F(0) ELSE x

\* tf.reduce_sum and np.sum
RECURSIVE ReduceSum(_, _)
ReduceSum(S, f) ==
    IF S = {} THEN F(0)
    ELSE LET i == CHOOSE i \in S : TRUE IN FAdd(f[i], ReduceSum(S \ {i}, f))

\* np.argmax of a row of booleans over 0..n-1: the first True, 0 when none
ArgMax(row, n) ==
    IF \E k \in 0..(n - 1) : row[k]
    THEN CHOOSE k \in 0..(n - 1) : row[k] /\ \A j \in 0..(k - 1) : ~row[j]
    ELSE 0

\* LastIdx with a fault: the index is mapped back as n_timesteps - 1 - argmax
LastIdxMinusOne(mask, shape) ==
    LET all_mask == [i \in 0..(shape[1] - 1) |->
                        [t \in 0..(shape[2] - 1) |->
                            \A n \in 0..(shape[3] - 1) : mask[<<i, t, n>>]]]
        reversed == [i \in 0..(shape[1] - 1) |->
                        [k \in 0..(shape[2] - 1) |-> all_mask[i][shape[2] - 1 - k]]]
    IN [i \in 0..(shape[1] - 1) |-> shape[2] - 1 - ArgMax(reversed[i], shape[2])]

\* n_timesteps - np.argmax(np.all(np_mask, axis=-1)[:, ::-1], axis=1)
LastIdx(mask, shape) ==
    LET all_mask == [i \in 0..(shape[1] - 1) |->
                        [t \in 0..(shape[2] - 1) |->
                            \A n \in 0..(shape[3] - 1) : mask[<<i, t, n>>]]]
        reversed == [i \in 0..(shape[1] - 1) |->
                        [k \in 0..(shape[2] - 1) |-> all_mask[i][shape[2] - 1 - k]]]
    IN [i \in 0..(shape[1] - 1) |-> shape[2] - ArgMax(reversed[i], shape[2])]

\* utils.compute_lowrank_factors fails when a channel or a timepoint has no
\* valid observation in any trial
InsufficientData(mask, shape) ==
    \/ \E n \in 0..(shape[3] - 1) :
          \A i \in 0..(shape[1] - 1), t \in 0..(shape[2] - 1) : ~mask[<<i, t, n>>]
    \/ \E t \in 0..(shape[2] - 1) :
          \A i \in 0..(shape[1] - 1), n \in 0..(shape[3] - 1) : ~mask[<<i, t, n>>]

\* the prediction of the model at the parameters p, entry by entry
PredEntry(p, i) == F((p + i[1] + 2 * i[2] + i[3]) % 3)

\* tf.reduce_sum(self._mask * (self.X_pred - self.X)**2) / self._num_datapoints
ReconCost(mask, pred, x, num, shape) ==
    LET maskf == [i \in Idx(shape) |-> IF mask[i] THEN F(1) ELSE F(0)]
        err == [i \in Idx(shape) |-> FSub(pred[i], x[i])]
        term == [i \in Idx(shape) |-> FMul(maskf[i], FMul(err[i], err[i]))]
    IN FDiv(ReduceSum(Idx(shape), term), num)

FitData(p) ==
    LET shape == np_X.shape
        mask == [i \in Idx(shape) |-> IsFinite(np_X.v[i])]
        x == [i \in Idx(shape) |-> NanToNum(np_X.v[i])]
        num == Cardinality({i \in Idx(shape) : mask[i]})
        pred == [i \in Idx(shape) |-> PredEntry(p, i)]
    IN
    /\ dpc = "start"
    /\ X0' = x
    /\ np_mask' = mask
    /\ num_datapoints' = num
    /\ last_idx' = LastIdx(mask, shape)
    /\ IF InsufficientData(mask, shape)
       THEN /\ dpc' = "InsufficientDataError"
            /\ UNCHANGED <<X_pred, recon_cost>>
       ELSE /\ X_pred' = pred
            /\ recon_cost' = ReconCost(mask, pred, x, num, shape)
            /\ dpc' = "built"
    /\ UNCHANGED <<np_X>>
    /\ UNCHANGED lifevars

InitData ==
    /\ n_components = 2 /\ shared_length = None /\ fit_trial_factors = FALSE
    /\ sess = None /\ nsess = 0 /\ X_shape = None /\ warp_dims = None
    /\ wtf_shape = None /\ pred_shape = None /\ graph_gen = 0 /\ opt_steps = 0
    /\ obj_history = <<>> /\ fit_called = FALSE /\ ncalls = 0 /\ last = NoCall
    /\ \E shape \in DataShapes :
          np_X \in [shape : {shape}, v : [Idx(shape) -> DataVals]]
    /\ X0 = None /\ np_mask = None /\ num_datapoints = 0
    /\ last_idx = None /\ X_pred = None /\ recon_cost = NaNQuot /\ dpc = "start"

NextData == \E p \in PredChoices : FitData(p)

SpecData == InitData /\ [][NextData]_vars

----------------------------------------------------------------------------

Init ==
    /\ InitLife
    /\ np_X = None /\ X0 = None /\ np_mask = None /\ num_datapoints = 0
    /\ last_idx = None /\ X_pred = None /\ recon_cost = None /\ dpc = "off"

Next ==
    \/ \E X \in FitShapes, niter \in NiterArgs, lr \in LrArgs, s \in SessArgs,
          ok \in BOOLEAN : Fit(X, niter, lr, s, ok)
    \/ \E n \in IterCounts, lr \in LearningRates : Train(n, lr)
    \/ \E X \in {None} \cup NewShapes : Predict(X)
    \/ \E X \in {None} \cup FitShapes : Transform(X)
    \/ Params

Spec == Init /\ [][Next]_vars

----------------------------------------------------------------------------
(* The claims *)

RECURSIVE SumSeq(_)
SumSeq(s) == IF s = <<>> THEN 0 ELSE Head(s) + SumSeq(Tail(s))

RECURSIVE SumInt(_, _)
SumInt(S, f) ==
    IF S = {} THEN 0
    ELSE LET i == CHOOSE i \in S : TRUE IN f[i] + SumInt(S \ {i}, f)

\* lr_1 n_1 times, then lr_2 n_2 times, ...
RECURSIVE PhaseTags(_, _)
PhaseTags(niters, lrs) ==
    IF niters = <<>> \/ lrs = <<>> THEN <<>>
    ELSE [k \in 1..Head(niters) |-> Head(lrs)] \o PhaseTags(Tail(niters), Tail(lrs))

IsPrefix(a, b) == Len(a) <= Len(b) /\ SubSeq(b, 1, Len(a)) = a

\* this step is a call of op
Called(op) == ncalls' = ncalls + 1 /\ last'.op = op
Succeeded(op) == Called(op) /\ last'.outcome = "ok"

Mismatched(niter, lr) ==
    \/ niter.kind # lr.kind
    \/ niter.kind = "seq" /\ Len(niter.v) # Len(lr.v)

\* C1: a successful fit leaves exactly n_1 + ... + n_k entries in the
\* objective history, the entries of phase 1 first, then those of phase 2,
\* ..., one entry per iteration; a train(n, lr) call adds exactly n entries.
C1_HistoryLength ==
    [][/\ Succeeded("fit") =>
            /\ Len(obj_history') = SumSeq(last'.niter.v)
            /\ [k \in 1..Len(obj_history') |-> obj_history'[k].lr]
                  = PhaseTags(last'.niter.v, last'.lr.v)
       /\ Succeeded("train") =>
            /\ Len(obj_history') = Len(obj_history) + last'.niter.v[1]
            /\ \A k \in (Len(obj_history) + 1)..Len(obj_history') :
                  obj_history'[k].lr = last'.lr.v[1]]_vars

\* a fit of two phases of 1 and 2 iterations, then a train of 2 iterations
C1_Witness ==
    /\ last.op = "train" /\ last.outcome = "ok" /\ last.niter.v[1] = 2
    /\ Len(obj_history) = 5
    /\ obj_history[1].lr = 2 /\ obj_history[2].lr = 1 /\ obj_history[3].lr = 1

\* C2: fit with niter and lr of different lengths, or one a scalar and the
\* other a sequence, fails with the configuration error, and no optimizer
\* step has run: nothing is built, no phase starts, the history is as it was.
C2_MismatchRejected ==
    [][Called("fit") /\ Mismatched(last'.niter, last'.lr) =>
            /\ last'.outcome = "ConfigurationError"
            /\ UNCHANGED <<obj_history, opt_steps, graph_gen, sess, nsess>>]_vars

\* a fitted model with a history, on which a fit with sequences of
\* different lengths has just failed
C2_Witness ==
    /\ last.op = "fit" /\ last.outcome = "ConfigurationError"
    /\ last.niter.kind = "seq" /\ last.lr.kind = "seq"
    /\ Len(last.niter.v) = 2 /\ Len(last.lr.v) = 1
    /\ obj_history # <<>>

\* C3: on an instance fit was never called on, predict fails with the
\* unfitted-model error whatever its argument, and changes nothing.
C3_PredictUnfitted ==
    [][Called("predict") /\ ~fit_called =>
            /\ last'.outcome = "UnfittedModelError"
            /\ last'.ret = None
            /\ UNCHANGED <<n_components, shared_length, fit_trial_factors, sess, nsess,
                           X_shape, warp_dims, wtf_shape, pred_shape, graph_gen,
                           opt_steps, obj_history, fit_called>>]_vars

\* predict with a 3D array on an instance never fit
C3_Witness ==
    /\ last.op = "predict" /\ ~fit_called /\ Len(last.X) = 3
    /\ last.outcome = "UnfittedModelError"

\* C4: on a fitted model, predict with a 3D array whose trial count or
\* timepoint count differs from the training data's fails with the
\* shape-mismatch error, with trial factors enabled or disabled.
C4_ShapeMismatchRejected ==
    (/\ last.op = "predict" /\ sess # None /\ Len(last.X) = 3
     /\ (last.X[1] # wtf_shape[1] \/ last.X[2] # wtf_shape[2]))
    => (last.outcome = "ShapeMismatchError" /\ last.ret = None)

\* C5: on a fitted model, predict with a 3D array of the training data's
\* trial count and timepoint count succeeds and returns an array of the
\* shape of its input, with trial factors enabled or disabled.
C5_PredictNewData ==
    (/\ last.op = "predict" /\ sess # None /\ Len(last.X) = 3
     /\ last.X[1] = wtf_shape[1] /\ last.X[2] = wtf_shape[2])
    => (last.outcome = "ok" /\ last.ret = last.X)

\* C6: shared_length, once set, never changes; left unset at construction,
\* the first fit call sets it to the time length of its input and no other
\* call sets it.
C6_SharedLengthFixed ==
    [][/\ shared_length # None => shared_length' = shared_length
       /\ shared_length = None =>
            IF Called("fit") THEN shared_length' = Some(last'.X[2])
            ELSE shared_length' = None]_vars

\* a later fit on an input of another time length than the first fit's
C6_Witness ==
    /\ last.op = "fit" /\ last.outcome = "ok" /\ graph_gen = 2
    /\ shared_length \in {Some(2), Some(3)}
    /\ shared_length # Some(last.X[2])

C8_ContextReused ==
    [][/\ Succeeded("fit") =>
            /\ sess' = IF last'.sess_arg = None THEN <<"created", nsess'>>
                       ELSE last'.sess_arg
            /\ nsess' = IF last'.sess_arg = None THEN nsess + 1 ELSE nsess
            /\ graph_gen' = graph_gen + 1
            /\ opt_steps' = SumSeq(last'.niter.v)
            /\ \A k \in 1..Len(obj_history') :
                  obj_history'[k].gen = graph_gen' /\ obj_history'[k].step = k - 1
       /\ Succeeded("train") =>
            /\ sess' = sess /\ nsess' = nsess /\ graph_gen' = graph_gen
            /\ opt_steps' = opt_steps + last'.niter.v[1]
            /\ \A k \in (Len(obj_history) + 1)..Len(obj_history') :
                  /\ obj_history'[k].gen = graph_gen
                  /\ obj_history'[k].step = opt_steps + k - Len(obj_history) - 1]_vars

\* a train call on a model whose optimizer had already taken steps
C8_Witness ==
    /\ last.op = "train" /\ last.outcome = "ok"
    /\ last.niter.v[1] > 0 /\ opt_steps > last.niter.v[1]
    /\ obj_history[Len(obj_history)].step = opt_steps - 1

\* every channel of trial i is observed at time t
Observed(i, t) == \A n \in 0..(np_X.shape[3] - 1) : ~np_X.v[<<i, t, n>>].nan
HasObserved(i) == \E t \in 0..(np_X.shape[2] - 1) : Observed(i, t)
LatestObserved(i) ==
    CHOOSE t \in 0..(np_X.shape[2] - 1) :
        Observed(i, t) /\ \A u \in (t + 1)..(np_X.shape[2] - 1) : ~Observed(i, u)

C10_MaskedCost ==
    LET I == Idx(np_X.shape)
        valid == {i \in I : ~np_X.v[i].nan}
        sq == [i \in valid |-> (X_pred[i].v - np_X.v[i].v) * (X_pred[i].v - np_X.v[i].v)]
    IN
    /\ dpc # "start" =>
          \A i \in I : /\ np_mask[i] <=> i \in valid
                       /\ i \notin valid => X0[i] = F(0)
    /\ dpc = "built" =>
          /\ ~recon_cost.nan
          /\ recon_cost.den = Cardinality(valid) /\ recon_cost.den > 0
          /\ recon_cost.num = SumInt(valid, sq)

\* a cost above zero on data with a missing entry
C10_Witness ==
    /\ dpc = "built"
    /\ \E i \in Idx(np_X.shape) : np_X.v[i].nan
    /\ recon_cost.num > 0

====
